---- MODULE Spec2Model ----
(***************************************************************************)
(* Model of the two maintenance scripts of the site:                       *)
(*   scripts/fix_aspect_ratio.py   the thumbnail normalizer                *)
(*   scripts/generate_portfolio.py the portfolio page generator            *)
(* Text is a sequence of one-character strings, so that strip, split,      *)
(* lower, startswith and html.escape are computed, not assumed.            *)
(* An image is a record [mode, w, h, px], px its rows from the top, each a *)
(* sequence of pixels <<r,g,b>> or <<r,g,b,a>>.                            *)
(***************************************************************************)
EXTENDS Integers, Sequences, FiniteSets, TLC

VARIABLES
    \* fix_aspect_ratio.main and the generator _iter_local_image_paths
    htmlExists, doc, fs, pc, sources, pos, seen, processed,
    stdout, stderr, yielded, rc, writes, opened,
    \* repeated runs of _pad_to_ratio on one stored image
    orig, file, runs, hist, res,
    \* lines 91-115 of _pad_to_ratio on the size _crop_whitespace returned
    gsize, gcrop, gres,
    \* generate_portfolio.render_card
    data, card,
    \* generate_portfolio.parse_simple_yaml
    lines, idx, ydata, ypc, lastIter, lastCall

mainVars == <<htmlExists, doc, fs, pc, sources, pos, seen, processed,
              stdout, stderr, yielded, rc, writes, opened>>
padVars == <<orig, file, runs, hist, res>>
geomVars == <<gsize, gcrop, gres>>
cardVars == <<data, card>>
yamlVars == <<lines, idx, ydata, ypc, lastIter, lastCall>>
vars == <<mainVars, padVars, geomVars, cardVars, yamlVars>>
\* each tool runs on its own: what the steps of one leave alone
notMain == <<padVars, geomVars, cardVars, yamlVars>>
notPad == <<mainVars, geomVars, cardVars, yamlVars>>
notGeom == <<mainVars, padVars, cardVars, yamlVars>>
notCard == <<mainVars, padVars, geomVars, yamlVars>>
notYaml == <<mainVars, padVars, geomVars, cardVars>>

(***************************************************************************)
(* Bounds of the model.                                                    *)
(***************************************************************************)
MaxTags == 3
MaxW == 3
MaxH == 2
MaxRuns == 2
MaxDim == 100
MaxPaperItems == 2
MaxLines == 3

(***************************************************************************)
(* Text.                                                                   *)
(***************************************************************************)
Max(a, b) == IF a >= b THEN a ELSE b
Abs(a) == IF a >= 0 THEN a ELSE -a

\* str.startswith
StartsWith(s, p) == Len(s) >= Len(p) /\ SubSeq(s, 1, Len(p)) = p
\* str.endswith
EndsWith(s, p) == Len(s) >= Len(p) /\ SubSeq(s, Len(s) - Len(p) + 1, Len(s)) = p
\* the `in` operator on str
Contains(s, sub) ==
    \E i \in 1..(Len(s) - Len(sub) + 1) : SubSeq(s, i, i + Len(sub) - 1) = sub

IsSpace(c) == c \in {" ", "\t", "\n"}
\* str.lstrip
LStrip(s) ==
    LET keep == {i \in 1..Len(s) : ~IsSpace(s[i])}
    IN  IF keep = {} THEN <<>>
        ELSE SubSeq(s, CHOOSE i \in keep : \A j \in keep : i <= j, Len(s))
\* str.rstrip
RStrip(s) ==
    LET keep == {i \in 1..Len(s) : ~IsSpace(s[i])}
    IN  IF keep = {} THEN <<>>
        ELSE SubSeq(s, 1, CHOOSE i \in keep : \A j \in keep : i >= j)
\* str.strip
Strip(s) == LStrip(RStrip(s))

\* index of the first occurrence of character c in s, 0 when there is none
IndexOf(s, c) ==
    LET hit == {i \in 1..Len(s) : s[i] = c}
    IN  IF hit = {} THEN 0 ELSE CHOOSE i \in hit : \A j \in hit : i <= j
\* index of the last occurrence of character c in s, 0 when there is none
LastIndexOf(s, c) ==
    LET hit == {i \in 1..Len(s) : s[i] = c}
    IN  IF hit = {} THEN 0 ELSE CHOOSE i \in hit : \A j \in hit : i >= j
\* str.split(c, 1) of a text that holds c: <<before, after>>
SplitOnce(s, c) ==
    LET i == IndexOf(s, c) IN <<SubSeq(s, 1, i - 1), SubSeq(s, i + 1, Len(s))>>

UpperLetters == <<"A", "B", "C", "D", "E", "F", "G", "H", "I", "J", "K", "L", "M", "N", "O", "P", "Q", "R", "S", "T", "U", "V", "W", "X", "Y", "Z">>
LowerLetters == <<"a", "b", "c", "d", "e", "f", "g", "h", "i", "j", "k", "l", "m", "n", "o", "p", "q", "r", "s", "t", "u", "v", "w", "x", "y", "z">>
LowerChar(c) ==
    IF \E i \in 1..26 : UpperLetters[i] = c
    THEN LowerLetters[CHOOSE i \in 1..26 : UpperLetters[i] = c]
    ELSE c
\* str.lower
Lower(s) == [i \in 1..Len(s) |-> LowerChar(s[i])]

RECURSIVE Flatten(_)
Flatten(ss) == IF ss = <<>> THEN <<>> ELSE Head(ss) \o Flatten(Tail(ss))

\* all sequences over S of length at most n
RECURSIVE SeqsUpTo(_, _)
SeqsUpTo(S, n) ==
    IF n = 0 THEN {<<>>}
    ELSE LET shorter == SeqsUpTo(S, n - 1)
         IN  shorter \cup {Append(q, x) : q \in {r \in shorter : Len(r) = n - 1}, x \in S}

(***************************************************************************)
(* fix_aspect_ratio.py: geometry of _pad_to_ratio.                         *)
(* TARGET_ASPECT = 16 / 9 is kept as the fraction TargetNum / TargetDen,   *)
(* and the float comparisons are carried out on exact fractions; for every *)
(* size up to 2000 x 2000 but 1600 x 891 they agree with CPython's floats  *)
(* (round() rounds a tie to the even integer).                             *)
(***************************************************************************)
TargetNum == 16
TargetDen == 9
TolDen == 100

\* n / d cut to a whole number, which is what int() alone would give
RoundTrunc(n, d) == n \div d
\* int(round(n / d)) for n >= 0, d > 0: a tie goes to the even neighbour
RoundHalfEven(n, d) ==
    LET q == n \div d
        r == n % d
    IN  IF 2 * r > d \/ (2 * r = d /\ q % 2 = 1) THEN q + 1 ELSE q

\* math.isclose(width / height, TARGET_ASPECT, rel_tol=1e-2, abs_tol=1e-2):
\* |a - b| <= max(rel_tol * max(|a|, |b|), abs_tol), scaled by
\* TolDen * TargetDen * height
IsClose(width, height) ==
    LET a == TargetDen * width
        b == TargetNum * height
    IN  TolDen * Abs(a - b) <= Max(Max(a, b), TargetDen * height)

\* current_ratio > TARGET_ASPECT
TooWide(width, height) == TargetDen * width > TargetNum * height

\* new_width, new_height of lines 102-109
NewSize(width, height) ==
    IF TooWide(width, height)
    THEN <<width, RoundHalfEven(TargetDen * width, TargetNum)>>
    ELSE <<RoundHalfEven(TargetNum * height, TargetDen), height>>

\* the offset of a paste that is not centred
OffsetTopLeft(new_width, new_height, width, height) == <<0, 0>>
\* offset of line 112
Offset(new_width, new_height, width, height) ==
    <<(new_width - width) \div 2, (new_height - height) \div 2>>

\* _pad_to_ratio if line 97 did not ask for did_crop
PadPlanAlwaysSaves(width, height, did_crop) ==
    IF width = 0 \/ height = 0
    THEN [ret |-> FALSE, wrote |-> FALSE, padded |-> FALSE,
          size |-> <<width, height>>, offset |-> <<0, 0>>]
    ELSE IF IsClose(width, height)
    THEN [ret |-> TRUE, wrote |-> TRUE, padded |-> FALSE,
          size |-> <<width, height>>, offset |-> <<0, 0>>]
    ELSE LET new == NewSize(width, height)
         IN  [ret |-> TRUE, wrote |-> TRUE, padded |-> TRUE, size |-> new,
              offset |-> Offset(new[1], new[2], width, height)]
\* What _pad_to_ratio does once _crop_whitespace has returned an image of
\* size width x height and the flag did_crop: its return value, whether it
\* saves, whether what it saves is a padded canvas, the canvas and the offset.
PadPlan(width, height, did_crop) ==
    IF width = 0 \/ height = 0
    THEN [ret |-> FALSE, wrote |-> FALSE, padded |-> FALSE,
          size |-> <<width, height>>, offset |-> <<0, 0>>]
    ELSE IF IsClose(width, height)
    THEN [ret |-> did_crop, wrote |-> did_crop, padded |-> FALSE,
          size |-> <<width, height>>, offset |-> <<0, 0>>]
    ELSE LET new == NewSize(width, height)
         IN  [ret |-> TRUE, wrote |-> TRUE, padded |-> TRUE, size |-> new,
              offset |-> Offset(new[1], new[2], width, height)]

(***************************************************************************)
(* fix_aspect_ratio.py: images.  PIL's operations are modelled by what     *)
(* they compute on the pixel grid.                                         *)
(***************************************************************************)
Coords(w, h) == (0..(w - 1)) \X (0..(h - 1))
\* the pixel at column x, row y (both from 0); px holds the rows, top down
At(image, x, y) == image.px[y + 1][x + 1]

\* Image.convert("RGBA"): an image without alpha becomes fully opaque
ConvertRGBA(image) ==
    IF image.mode = "RGBA" THEN image
    ELSE [mode |-> "RGBA", w |-> image.w, h |-> image.h,
          px |-> [y \in 1..image.h |-> [x \in 1..image.w |-> image.px[y][x] \o <<255>>]]]

\* Image.getbbox of the pixels in nonzero: None (here <<>>) when there is
\* none, else <<left, upper, right, lower>>, right and lower exclusive
GetBBox(nonzero) ==
    IF nonzero = {} THEN <<>>
    ELSE LET xs == {p[1] : p \in nonzero}
             ys == {p[2] : p \in nonzero}
         IN  <<CHOOSE x \in xs : \A o \in xs : x <= o,
               CHOOSE y \in ys : \A o \in ys : y <= o,
               (CHOOSE x \in xs : \A o \in xs : x >= o) + 1,
               (CHOOSE y \in ys : \A o \in ys : y >= o) + 1>>

\* Image.crop(bbox)
Crop(image, bbox) ==
    [mode |-> image.mode, w |-> bbox[3] - bbox[1], h |-> bbox[4] - bbox[2],
     px |-> [y \in 1..(bbox[4] - bbox[2]) |->
                [x \in 1..(bbox[3] - bbox[1]) |->
                    At(image, x - 1 + bbox[1], y - 1 + bbox[2])]]]

Clip8(v) == IF v < 0 THEN 0 ELSE IF v > 255 THEN 255 ELSE v
\* ImageChops.difference on one channel
ChopDifference(a, b) == Abs(a - b)
\* ImageChops.add(a, b, scale, offset) on one channel, scale an integer
ChopAdd(a, b, scale, offset) == Clip8(((a + b) \div scale) + offset)

\* the pixels rgba.getchannel("A").getbbox() counts: alpha not zero
AlphaNonzero(rgba) == {p \in Coords(rgba.w, rgba.h) : At(rgba, p[1], p[2])[4] # 0}
\* the pixels diff.getbbox() counts (lines 76-81): some channel of the
\* amplified difference against white is not zero
DiffNonzero(rgba) ==
    {p \in Coords(rgba.w, rgba.h) :
        \E c \in 1..3 :
            LET d == ChopDifference(At(rgba, p[1], p[2])[c], 255)
            IN  ChopAdd(d, d, 2, -100) # 0}

\* _crop_whitespace: [img, did_crop]
CropWhitespace(image) ==
    LET rgba == ConvertRGBA(image)
        full == <<0, 0, rgba.w, rgba.h>>
        abox == GetBBox(AlphaNonzero(rgba))
        dbox == GetBBox(DiffNonzero(rgba))
    IN  IF abox # <<>> /\ abox # full
        THEN [img |-> Crop(rgba, abox), did_crop |-> TRUE]
        ELSE IF dbox # <<>> /\ dbox # full
        THEN [img |-> Crop(rgba, dbox), did_crop |-> TRUE]
        ELSE [img |-> rgba, did_crop |-> FALSE]

\* PIL's MULDIV255 and BLEND8, which Image.paste applies to every band
MulDiv255(a, b) ==
    LET tmp == a * b + 128 IN ((tmp \div 256) + tmp) \div 256
Blend8(mask, in1, in2) == MulDiv255(in1, 255 - mask) + MulDiv255(in2, mask)

\* Image.new("RGBA", size, (0, 0, 0, 0)) followed by
\* padded.paste(cropped, offset, cropped): the alpha band of cropped is the
\* mask, and all four bands are blended with it
NewAndPaste(size, cropped, offset) ==
    [mode |-> "RGBA", w |-> size[1], h |-> size[2],
     px |-> LET Pasted(p) ==
                    LET qx == p[1] - offset[1]
                        qy == p[2] - offset[2]
                    IN  IF qx >= 0 /\ qx < cropped.w /\ qy >= 0 /\ qy < cropped.h
                        THEN LET src == At(cropped, qx, qy)
                             IN  <<Blend8(src[4], 0, src[1]), Blend8(src[4], 0, src[2]),
                                   Blend8(src[4], 0, src[3]), Blend8(src[4], 0, src[4])>>
                        ELSE <<0, 0, 0, 0>>
            IN  [y \in 1..size[2] |-> [x \in 1..size[1] |-> Pasted(<<x - 1, y - 1>>)]]]

\* _pad_to_ratio on the stored image: the return value, whether the file is
\* written, the stored image afterwards, and what was computed on the way
PadToRatio(image) ==
    LET c == CropWhitespace(image)
        plan == PadPlan(c.img.w, c.img.h, c.did_crop)
    IN  [ret |-> plan.ret, wrote |-> plan.wrote, did_crop |-> c.did_crop,
         cropped |-> <<c.img.w, c.img.h>>, plan |-> plan,
         file |-> IF ~plan.wrote THEN image
                  ELSE IF plan.padded
                  THEN NewAndPaste(plan.size, c.img, plan.offset)
                  ELSE c.img]

(***************************************************************************)
(* Images the model draws from.                                            *)
(***************************************************************************)
Transparent == <<0, 0, 0, 0>>
OpaqueWhite == <<255, 255, 255, 255>>
OpaqueDark == <<0, 0, 0, 255>>
SemiDark == <<0, 0, 0, 128>>
PaletteRGBA == {Transparent, OpaqueWhite, OpaqueDark, SemiDark}
PaletteRGB == {<<255, 255, 255>>, <<200, 200, 200>>, <<0, 0, 0>>}

GridImages(mode, palette, maxw, maxh) ==
    UNION {{[mode |-> mode, w |-> w, h |-> h, px |-> f] :
              f \in [1..h -> [1..w -> palette]]} : w \in 1..maxw, h \in 1..maxh}

\* an opaque w x h picture with a border of the given width around it
Framed(w, h, border, inner, outer) ==
    [mode |-> "RGBA", w |-> w + 2 * border, h |-> h + 2 * border,
     px |-> LET Pixel(p) ==
                    IF /\ p[1] >= border /\ p[1] < w + border
                       /\ p[2] >= border /\ p[2] < h + border
                    THEN inner ELSE outer
            IN  [y \in 1..(h + 2 * border) |->
                    [x \in 1..(w + 2 * border) |-> Pixel(<<x - 1, y - 1>>)]]]

\* thumbnails that are already 16:9
AtRatioDark == Framed(16, 9, 0, OpaqueDark, OpaqueDark)
AtRatioWhite == Framed(16, 9, 0, OpaqueWhite, OpaqueWhite)
AtRatioBordered == Framed(16, 9, 1, OpaqueDark, Transparent)
SquareDark == Framed(2, 2, 0, OpaqueDark, OpaqueDark)
\* a one-pixel picture without an alpha channel
DotRGB == [mode |-> "RGB", w |-> 1, h |-> 1, px |-> <<(<<(<<0, 0, 0>>)>>)>>]

SmallImages ==
    GridImages("RGBA", PaletteRGBA, MaxW, MaxH) \cup GridImages("RGB", PaletteRGB, MaxW, MaxH)
LargeImages == {AtRatioDark, AtRatioWhite, AtRatioBordered}

(***************************************************************************)
(* Repeated runs of _pad_to_ratio on one file (the tool is run again on    *)
(* the files it wrote).                                                    *)
(***************************************************************************)
PadIdle == orig = 0 /\ file = 0 /\ runs = 0 /\ hist = <<>> /\ res = <<>>

InitPad ==
    /\ orig \in SmallImages \cup LargeImages
    /\ file = orig
    /\ runs = 0
    /\ hist = <<>>
    /\ res = <<>>

RunPad ==
    /\ runs < MaxRuns
    /\ LET r == PadToRatio(file)
       IN  /\ file' = r.file
           /\ hist' = Append(hist, r.file)
           /\ res' = Append(res, [ret |-> r.ret, wrote |-> r.wrote,
                                  did_crop |-> r.did_crop, cropped |-> r.cropped,
                                  plan |-> r.plan])
    /\ runs' = runs + 1
    /\ UNCHANGED <<notPad, orig>>

(***************************************************************************)
(* Lines 91-115 of _pad_to_ratio on every size _crop_whitespace can        *)
(* return, the sizes of the documented examples included.                  *)
(***************************************************************************)
Dims == (1..MaxDim) \cup {800, 1080, 1920}

GeomIdle == gsize = <<0, 0>> /\ gcrop = FALSE /\ gres = <<>>

InitGeom ==
    /\ gsize \in Dims \X Dims
    /\ gcrop \in BOOLEAN
    /\ gres = <<>>

PadGeom ==
    /\ gres = <<>>
    /\ gres' = <<PadPlan(gsize[1], gsize[2], gcrop)>>
    /\ UNCHANGED <<notGeom, gsize, gcrop>>

(***************************************************************************)
(* fix_aspect_ratio.py: _ImageCollector, _iter_local_image_paths, main.    *)
(* The document is the sequence of start tags html.parser reports, each    *)
(* with its attributes in order; an attribute without a value has          *)
(* present = FALSE (Python's None).                                        *)
(***************************************************************************)
Attr(name, value) == [name |-> name, present |-> TRUE, value |-> value]
AttrNoValue(name) == [name |-> name, present |-> FALSE, value |-> <<>>]
Tag(tag, attrs) == [tag |-> tag, attrs |-> attrs]

RECURSIVE SrcValues(_)
SrcValues(attrs) ==
    IF attrs = <<>> THEN <<>>
    ELSE LET a == Head(attrs)
         IN  (IF a.name # <<>> /\ Lower(a.name) = <<"s", "r", "c">> /\ a.present /\ a.value # <<>>
              THEN <<a.value>> ELSE <<>>) \o SrcValues(Tail(attrs))

\* _ImageCollector.handle_starttag: the sources after the tag
HandleStartTag(srcs, t) ==
    IF Lower(t.tag) # <<"i", "m", "g">> THEN srcs ELSE srcs \o SrcValues(t.attrs)

\* parser.feed(...): parser.sources once the whole document is fed
RECURSIVE Feed(_, _)
Feed(srcs, tags) ==
    IF tags = <<>> THEN srcs ELSE Feed(HandleStartTag(srcs, Head(tags)), Tail(tags))

\* line 47 without the test on seen
SkipEmptyOnly(raw_src, seen_srcs) == raw_src = <<>>
\* line 47
SkipSource(raw_src, seen_srcs) == raw_src = <<>> \/ raw_src \in seen_srcs
\* line 50
IsRemote(raw_src) == Contains(raw_src, <<":", "/", "/">>) \/ StartsWith(raw_src, <<"d", "a", "t", "a", ":">>)

\* (ROOT / raw_src).resolve(), as a path below ROOT: "." segments go
RECURSIVE Resolve(_)
Resolve(raw_src) ==
    IF StartsWith(raw_src, <<".", "/">>) THEN Resolve(SubSeq(raw_src, 3, Len(raw_src)))
    ELSE raw_src

\* Path.suffix: from the last dot of the last component, "" when it has none
Suffix(path) ==
    LET name == SubSeq(path, LastIndexOf(path, "/") + 1, Len(path))
        dot == LastIndexOf(name, ".")
    IN  IF dot <= 1 THEN <<>> ELSE SubSeq(name, dot, Len(name))

SUPPORTED_SUFFIXES == {<<".", "p", "n", "g">>, <<".", "w", "e", "b", "p">>}
\* line 56 without the test on the suffix
SupportedAny(path) == TRUE
\* line 56
Supported(path) == Lower(Suffix(path)) \in SUPPORTED_SUFFIXES

NoFile == [mode |-> "none", w |-> 0, h |-> 0, px |-> <<>>]
\* path.exists()
Exists(files, path) == path \in DOMAIN files /\ files[path].mode # "none"

\* the files below ROOT the documents refer to
FsChoices ==
    {[p \in {<<"a", ".", "p", "n", "g">>, <<"B", ".", "P", "N", "G">>, <<"c", ".", "j", "p", "g">>, <<"m", ".", "p", "n", "g">>} |->
        IF p = <<"a", ".", "p", "n", "g">> THEN a
        ELSE IF p \in {<<"B", ".", "P", "N", "G">>, <<"c", ".", "j", "p", "g">>} THEN DotRGB
        ELSE NoFile] :
     a \in {AtRatioDark, AtRatioBordered, SquareDark}}

ImgTags ==
    {Tag(<<"i", "m", "g">>, <<Attr(<<"s", "r", "c">>, r)>>) :
        r \in {<<"a", ".", "p", "n", "g">>, <<".", "/", "a", ".", "p", "n", "g">>, <<"B", ".", "P", "N", "G">>, <<"c", ".", "j", "p", "g">>, <<"m", ".", "p", "n", "g">>,
               <<"h", ":", "/", "/", "a", ".", "p", "n", "g">>, <<"d", "a", "t", "a", ":", "a", ".", "p", "n", "g">>}}
OtherTags ==
    {Tag(<<"s", "c", "r", "i", "p", "t">>, <<Attr(<<"s", "r", "c">>, <<"a", ".", "p", "n", "g">>)>>),
     Tag(<<"i", "m", "g">>, <<Attr(<<"a", "l", "t">>, <<"x">>), AttrNoValue(<<"s", "r", "c">>), Attr(<<"s", "r", "c">>, <<>>)>>)}
Tags == ImgTags \cup OtherTags

MainIdle ==
    /\ htmlExists = FALSE /\ doc = <<>> /\ fs = <<>> /\ pc = "idle"
    /\ sources = <<>> /\ pos = 0 /\ seen = {} /\ processed = 0
    /\ stdout = <<>> /\ stderr = <<>> /\ yielded = <<>> /\ rc = -1
    /\ writes = <<>> /\ opened = <<>>

InitMain ==
    /\ htmlExists \in BOOLEAN
    /\ doc \in (IF htmlExists THEN SeqsUpTo(Tags, MaxTags) ELSE {<<>>})
    /\ fs \in FsChoices
    /\ pc = "main"
    /\ sources = <<>> /\ pos = 0 /\ seen = {} /\ processed = 0
    /\ stdout = <<>> /\ stderr = <<>> /\ yielded = <<>> /\ rc = -1
    /\ writes = <<>> /\ opened = <<>>

\* main, lines 119-122: the HTML file is missing
MainMissingHtml ==
    /\ pc = "main" /\ ~htmlExists
    /\ stderr' = Append(stderr, [kind |-> "error", what |-> <<"p", "o", "r", "t", "f", "o", "l", "i", "o", ".", "h", "t", "m", "l">>])
    /\ rc' = 1
    /\ pc' = "done"
    /\ UNCHANGED <<notMain, htmlExists, doc, fs, sources, pos, seen, processed, stdout,
                   yielded, writes, opened>>

\* main, lines 124-125 and the generator's lines 42-45: the document is
\* read and fed to the collector
MainStart ==
    /\ pc = "main" /\ htmlExists
    /\ processed' = 0
    /\ sources' = Feed(<<>>, doc)
    /\ seen' = {}
    /\ pos' = 1
    /\ pc' = "iter"
    /\ UNCHANGED <<notMain, htmlExists, doc, fs, stdout, stderr, yielded, rc, writes, opened>>

\* lines 47-48
IterSeen ==
    /\ pc = "iter" /\ pos <= Len(sources)
    /\ SkipSource(sources[pos], seen)
    /\ pos' = pos + 1
    /\ UNCHANGED <<notMain, htmlExists, doc, fs, pc, sources, seen, processed, stdout,
                   stderr, yielded, rc, writes, opened>>

\* lines 49-51
IterRemote ==
    /\ pc = "iter" /\ pos <= Len(sources)
    /\ ~SkipSource(sources[pos], seen)
    /\ IsRemote(sources[pos])
    /\ seen' = seen \cup {sources[pos]}
    /\ pos' = pos + 1
    /\ UNCHANGED <<notMain, htmlExists, doc, fs, pc, sources, processed, stdout, stderr,
                   yielded, rc, writes, opened>>

\* lines 52-55
IterMissing ==
    /\ pc = "iter" /\ pos <= Len(sources)
    /\ ~SkipSource(sources[pos], seen)
    /\ ~IsRemote(sources[pos])
    /\ ~Exists(fs, Resolve(sources[pos]))
    /\ seen' = seen \cup {sources[pos]}
    /\ stderr' = Append(stderr, [kind |-> "missing", what |-> sources[pos]])
    /\ pos' = pos + 1
    /\ UNCHANGED <<notMain, htmlExists, doc, fs, pc, sources, processed, stdout, yielded,
                   rc, writes, opened>>

\* lines 56-58
IterUnsupported ==
    /\ pc = "iter" /\ pos <= Len(sources)
    /\ ~SkipSource(sources[pos], seen)
    /\ ~IsRemote(sources[pos])
    /\ Exists(fs, Resolve(sources[pos]))
    /\ ~Supported(Resolve(sources[pos]))
    /\ seen' = seen \cup {sources[pos]}
    /\ stderr' = Append(stderr, [kind |-> "unsupported", what |-> sources[pos]])
    /\ pos' = pos + 1
    /\ UNCHANGED <<notMain, htmlExists, doc, fs, pc, sources, processed, stdout, yielded,
                   rc, writes, opened>>

\* line 59 and the body of main's loop, lines 126-128
IterYield ==
    /\ pc = "iter" /\ pos <= Len(sources)
    /\ ~SkipSource(sources[pos], seen)
    /\ ~IsRemote(sources[pos])
    /\ Exists(fs, Resolve(sources[pos]))
    /\ Supported(Resolve(sources[pos]))
    /\ LET path == Resolve(sources[pos])
           r == PadToRatio(fs[path])
       IN  /\ seen' = seen \cup {sources[pos]}
           /\ yielded' = Append(yielded,
                  [raw |-> sources[pos], path |-> path, ret |-> r.ret,
                   wrote |-> r.wrote, did_crop |-> r.did_crop,
                   cropped |-> r.cropped])
           /\ opened' = Append(opened, path)
           /\ fs' = [fs EXCEPT ![path] = r.file]
           /\ writes' = IF r.wrote THEN Append(writes, path) ELSE writes
           /\ processed' = IF r.ret THEN processed + 1 ELSE processed
           /\ stdout' = IF r.ret THEN Append(stdout, [kind |-> "padded", what |-> path, n |-> 0])
                        ELSE stdout
    /\ pos' = pos + 1
    /\ UNCHANGED <<notMain, htmlExists, doc, pc, sources, stderr, rc>>

\* lines 130-131
MainDone ==
    /\ pc = "iter" /\ pos > Len(sources)
    /\ stdout' = Append(stdout, [kind |-> "done", what |-> <<>>, n |-> processed])
    /\ rc' = 0
    /\ pc' = "done"
    /\ UNCHANGED <<notMain, htmlExists, doc, fs, sources, pos, seen, processed, stderr,
                   yielded, writes, opened>>

(***************************************************************************)
(* Properties of fix_aspect_ratio.py.                                      *)
(***************************************************************************)
Range(s) == {s[i] : i \in 1..Len(s)}
\* the position of the first occurrence of e in s (e occurs in s)
FirstIndex(s, e) == CHOOSE i \in 1..Len(s) : s[i] = e /\ \A j \in 1..(i - 1) : s[j] # e
Count(s, Test(_)) == Cardinality({i \in 1..Len(s) : Test(s[i])})

\* the values of the src attributes of the img tags, in document order
RECURSIVE ImgSrcAttrs(_)
ImgSrcAttrs(tags) ==
    IF tags = <<>> THEN <<>>
    ELSE LET t == Head(tags)
             IsSrc(a) == a.name = <<"s", "r", "c">> /\ a.present
             own == IF t.tag = <<"i", "m", "g">>
                    THEN [i \in 1..Len(SelectSeq(t.attrs, IsSrc)) |->
                            SelectSeq(t.attrs, IsSrc)[i].value]
                    ELSE <<>>
         IN  own \o ImgSrcAttrs(Tail(tags))

\* within the 1% tolerance of 16/9: |w/h - 16/9| <= max(0.01 * max(w/h, 16/9), 0.01)
WithinTolerance(w, h) ==
    \/ 100 * Abs(9 * w - 16 * h) <= Max(9 * w, 16 * h)
    \/ 100 * Abs(9 * w - 16 * h) <= 9 * h

\* C1: the references _iter_local_image_paths yields hold no raw src with
\* "://" or a leading "data:", hold each raw src at most once, and come in
\* the order of their first occurrence among the img src attributes.
C1_LocalUniqueInFirstSeenOrder ==
    LET all == ImgSrcAttrs(doc)
    IN  /\ \A i \in 1..Len(yielded) :
            /\ ~Contains(yielded[i].raw, <<":", "/", "/">>)
            /\ ~StartsWith(yielded[i].raw, <<"d", "a", "t", "a", ":">>)
            /\ yielded[i].raw \in Range(all)
        /\ \A i, j \in 1..Len(yielded) :
            i < j => /\ yielded[i].raw # yielded[j].raw
                     /\ FirstIndex(all, yielded[i].raw) < FirstIndex(all, yielded[j].raw)

\* C1 happens: two references were yielded from a document that names the
\* first of them twice
C1_Witness ==
    /\ pc = "done" /\ Len(yielded) >= 2
    /\ \E i, j \in 1..Len(sources) : i < j /\ sources[i] = sources[j]
                                     /\ sources[i] = yielded[1].raw

\* C4: an image within tolerance of 16/9 that needs no crop is not written,
\* _pad_to_ratio returns False for it, and main neither prints a "padded"
\* line for it nor counts it.
C4_AtRatioIsNoOp ==
    LET NoOp(y) == WithinTolerance(y.cropped[1], y.cropped[2]) /\ ~y.did_crop
        Other(y) == ~NoOp(y)
        IsPadded(l) == l.kind = "padded"
        IsDone(l) == l.kind = "done"
    IN  /\ \A i \in 1..Len(yielded) : NoOp(yielded[i]) => ~yielded[i].ret /\ ~yielded[i].wrote
        /\ Len(writes) = Count(yielded, Other)
        /\ processed = Count(yielded, Other)
        /\ Count(stdout, IsPadded) = Count(yielded, Other)
        /\ \A i \in 1..Len(stdout) : IsDone(stdout[i]) => stdout[i].n = Count(yielded, Other)

\* C4 happens: main has finished and met an image at 16:9 with nothing to crop
C4_Witness ==
    /\ pc = "done" /\ rc = 0
    /\ \E i \in 1..Len(yielded) :
        /\ yielded[i].cropped = <<16, 9>> /\ ~yielded[i].did_crop /\ ~yielded[i].ret

\* C9: with the HTML file present, a missing or unsupported image is warned
\* about and never opened or written, every other distinct local reference
\* is processed, and main returns 0; main returns non-zero only when the
\* HTML file is missing, and then touches no image.
C9_SkipAndContinue ==
    LET HasExt(p, e) == EndsWith(Lower(p), e)
        Good(p) == Exists(fs, p) /\ (HasExt(p, <<".", "p", "n", "g">>) \/ HasExt(p, <<".", "w", "e", "b", "p">>))
        Local(r) == r # <<>> /\ ~Contains(r, <<":", "/", "/">>) /\ ~StartsWith(r, <<"d", "a", "t", "a", ":">>)
        Warned(k, r) == \E i \in 1..Len(stderr) : stderr[i].kind = k /\ stderr[i].what = r
    IN  /\ \A i \in 1..Len(opened) : Good(opened[i])
        /\ \A i \in 1..Len(writes) : writes[i] \in Range(opened)
        /\ ~htmlExists => opened = <<>> /\ writes = <<>> /\ yielded = <<>>
        /\ pc = "done" => (rc = 0 <=> htmlExists) /\ (rc # 0 <=> ~htmlExists)
        /\ pc # "done" => rc = -1
        /\ (pc = "done" /\ htmlExists) =>
              \A r \in Range(ImgSrcAttrs(doc)) :
                  Local(r) =>
                      IF Good(Resolve(r))
                      THEN \E i \in 1..Len(yielded) : yielded[i].raw = r
                      ELSE /\ \A i \in 1..Len(yielded) : yielded[i].raw # r
                           /\ (Warned("missing", r) \/ Warned("unsupported", r))

\* C9 happens: main returned 0 after warning about one image and processing
\* a later one
C9_Witness ==
    /\ pc = "done" /\ rc = 0 /\ stderr # <<>> /\ yielded # <<>>
    /\ FirstIndex(sources, stderr[1].what) < FirstIndex(sources, yielded[Len(yielded)].raw)

(***************************************************************************)
(* Properties of repeated runs of _pad_to_ratio.                           *)
(***************************************************************************)
\* the image a run started from
InputOf(i) == IF i = 1 THEN orig ELSE hist[i - 1]

\* at least one outer row or column holds only pixels of alpha 0
HasTransparentBorder(image) ==
    LET rgba == ConvertRGBA(image)
        Clear(x, y) == At(rgba, x, y)[4] = 0
    IN  \/ \A y \in 0..(rgba.h - 1) : Clear(0, y)
        \/ \A y \in 0..(rgba.h - 1) : Clear(rgba.w - 1, y)
        \/ \A x \in 0..(rgba.w - 1) : Clear(x, 0)
        \/ \A x \in 0..(rgba.w - 1) : Clear(x, rgba.h - 1)

\* C3: a second run of _pad_to_ratio on the file the first run left stores
\* the same image (size and pixels) as the first run did.
C3_SecondRunStoresTheSame == Len(hist) >= 2 => hist[2] = hist[1]

\* C7: an image with a fully transparent border comes back from
\* _crop_whitespace with the flag True and strictly smaller, and
\* _pad_to_ratio plans the canvas from the trimmed size.
C7_TransparentBorderIsTrimmed ==
    \A i \in 1..Len(res) :
        HasTransparentBorder(InputOf(i)) =>
            /\ res[i].did_crop
            /\ res[i].cropped[1] <= InputOf(i).w /\ res[i].cropped[2] <= InputOf(i).h
            /\ res[i].cropped # <<InputOf(i).w, InputOf(i).h>>
            /\ res[i].plan = PadPlan(res[i].cropped[1], res[i].cropped[2], TRUE)

(***************************************************************************)
(* Properties of the padded canvas, lines 102-114.                         *)
(***************************************************************************)
\* C5: a padded canvas keeps the width of an image that is too wide and the
\* height of one that is too narrow, the other side is the nearest whole
\* number to w / (16/9) or h * 16/9 and not smaller than before, and the
\* offset is (floor((W-w)/2), floor((H-h)/2)); 800x800 gives 1422x800 at
\* horizontal offset 311.
C5_CanvasAndCentredOffset ==
    (gres # <<>> /\ gres[1].padded) =>
        LET w == gsize[1]
            h == gsize[2]
            W == gres[1].size[1]
            H == gres[1].size[2]
            ox == gres[1].offset[1]
            oy == gres[1].offset[2]
        IN  /\ 9 * w > 16 * h => W = w /\ 2 * Abs(16 * H - 9 * w) <= 16 /\ H >= h
            /\ 9 * w < 16 * h => H = h /\ 2 * Abs(9 * W - 16 * h) <= 9 /\ W >= w
            /\ 2 * ox <= W - w /\ W - w < 2 * ox + 2
            /\ 2 * oy <= H - h /\ H - h < 2 * oy + 2
            /\ (w = 800 /\ h = 800) => W = 1422 /\ H = 800 /\ ox = 311 /\ oy = 0

\* C5 happens: the 800x800 example has been padded
C5_Witness == gsize = <<800, 800>> /\ gres # <<>> /\ gres[1].padded

\* C6 as stated: every padded canvas is within the 1% tolerance of 16/9
C6_CanvasWithinTolerance ==
    (gres # <<>> /\ gres[1].padded) =>
        WithinTolerance(gres[1].size[1], gres[1].size[2])

\* C6 amended: the padded canvas is within the 1% tolerance of 16/9 when the
\* kept side is large enough for whole-pixel rounding of the other: height
\* at least 21 for an image that is too narrow, width at least 73 for one
\* that is too wide.
C6_CanvasWithinToleranceWhenLarge ==
    (gres # <<>> /\ gres[1].padded) =>
        LET w == gsize[1]
            h == gsize[2]
        IN  ((9 * w < 16 * h /\ h >= 21) \/ (9 * w > 16 * h /\ w >= 73)) =>
                WithinTolerance(gres[1].size[1], gres[1].size[2])

\* C6 happens: images just above the two thresholds have been padded
C6_Witness ==
    /\ gres # <<>> /\ gres[1].padded
    /\ gsize \in {<<21, 21>>, <<73, 21>>}

(***************************************************************************)
(* generate_portfolio.py: values.  A dict is a function from its keys; an  *)
(* entry's value is text or a list of dicts of text, as parse_simple_yaml  *)
(* builds them.                                                            *)
(***************************************************************************)
EmptyDict == <<>>
Put(d, k, v) == [x \in (DOMAIN d) \cup {k} |-> IF x = k THEN v ELSE d[x]]
Str(s) == [kind |-> "str", s |-> s, items |-> <<>>]
List(items) == [kind |-> "list", s |-> <<>>, items |-> items]
\* Python's truth value of an entry's value
Truthy(v) == IF v.kind = "str" THEN v.s # <<>> ELSE v.items # <<>>
\* data.get(key) or []
GetOrEmptyList(d, key) ==
    IF key \in DOMAIN d /\ Truthy(d[key]) THEN d[key] ELSE List(<<>>)

\* html.escape(s), quote=True
EscapeChar(c) ==
    IF c = "&" THEN <<"&", "a", "m", "p", ";">>
    ELSE IF c = "<" THEN <<"&", "l", "t", ";">>
    ELSE IF c = ">" THEN <<"&", "g", "t", ";">>
    ELSE IF c = "\"" THEN <<"&", "q", "u", "o", "t", ";">>
    ELSE IF c = "'" THEN <<"&", "#", "x", "2", "7", ";">>
    ELSE <<c>>
Escape(s) == Flatten([i \in 1..Len(s) |-> EscapeChar(s[i])])

(***************************************************************************)
(* generate_portfolio.py: render_card and what it calls for the links.     *)
(* A fragment is the template it was made from and the text put in its     *)
(* placeholder; the empty string is NoFragment.                            *)
(***************************************************************************)
NoFragment == [template |-> "", arg |-> <<>>]
Fragment(template, arg) == [template |-> template, arg |-> arg]

\* first_dict_with_key: a text is iterated by character, and no character
\* is a dict
RECURSIVE FirstDictIn(_, _)
FirstDictIn(items, key) ==
    IF items = <<>> THEN EmptyDict
    ELSE IF key \in DOMAIN Head(items) THEN Head(items)
    ELSE FirstDictIn(Tail(items), key)
first_dict_with_key(value, key) ==
    IF value.kind = "list" THEN FirstDictIn(value.items, key) ELSE EmptyDict

render_paper_button(url) ==
    IF url = <<>> THEN NoFragment ELSE Fragment("PAPER_BUTTON_TEMPLATE", Escape(url))
render_video_button(url) ==
    IF url = <<>> THEN NoFragment ELSE Fragment("VIDEO_BUTTON_TEMPLATE", Escape(url))
render_status_badge(status) == Fragment("STATUS_BADGE_TEMPLATE", Escape(Strip(status)))
\* render_links: the components that are not empty, inside LINKS_TEMPLATE
render_links(components) == SelectSeq(components, LAMBDA c : c # NoFragment)

\* line 183 without lower()
PaperAcceptedExactCase(status, paper_url) == status = <<"a", "c", "c", "e", "p", "t", "e", "d">> /\ paper_url # <<>>
\* line 183
PaperAccepted(status, paper_url) == Lower(status) = <<"a", "c", "c", "e", "p", "t", "e", "d">> /\ paper_url # <<>>

\* render_card, lines 161 and 168-189: the title and the links of the card
render_card(d) ==
    LET title == Escape(IF <<"t", "i", "t", "l", "e">> \in DOMAIN d THEN d[<<"t", "i", "t", "l", "e">>].s ELSE <<"U", "n", "t", "i", "t", "l", "e", "d">>)
        paper_items == GetOrEmptyList(d, <<"p", "a", "p", "e", "r">>)
        status_info == first_dict_with_key(paper_items, <<"s", "t", "a", "t", "u", "s">>)
        status == IF status_info # EmptyDict THEN status_info[<<"s", "t", "a", "t", "u", "s">>] ELSE <<>>
        paper_info == first_dict_with_key(paper_items, <<"u", "r", "l">>)
        paper_url == IF paper_info # EmptyDict THEN paper_info[<<"u", "r", "l">>] ELSE <<>>
        video_url ==
            IF <<"v", "i", "d", "e", "o">> \in DOMAIN d /\ Truthy(d[<<"v", "i", "d", "e", "o">>])
            THEN (IF d[<<"v", "i", "d", "e", "o">>].kind = "str" THEN d[<<"v", "i", "d", "e", "o">>].s ELSE <<>>)
            ELSE LET video_info ==
                         first_dict_with_key(GetOrEmptyList(d, <<"v", "i", "d", "e", "o", "s">>), <<"u", "r", "l">>)
                 IN  IF <<"u", "r", "l">> \in DOMAIN video_info THEN video_info[<<"u", "r", "l">>] ELSE <<>>
        paper_button ==
            IF PaperAccepted(status, paper_url) THEN render_paper_button(paper_url)
            ELSE NoFragment
        status_badge ==
            IF ~PaperAccepted(status, paper_url) /\ status # <<>>
            THEN render_status_badge(status) ELSE NoFragment
        video_button == render_video_button(video_url)
    IN  [title |-> title,
         links |-> render_links(<<paper_button, status_badge, video_button>>)]

(***************************************************************************)
(* The entries render_card is given.                                       *)
(***************************************************************************)
StatusValues == {<<"A", "c", "c", "e", "p", "t", "e", "d">>, <<"a", "c", "c", "e", "p", "t", "e", "d">>, <<"A", "C", "C", "E", "P", "T", "E", "D">>, <<"S", "u", "b", "m", "i", "t", "t", "e", "d">>, <<>>}
UrlValues == {<<>>, <<"u">>, <<"a", "&", "b">>}
PaperItems ==
    {[k \in ks |-> IF k = <<"s", "t", "a", "t", "u", "s">> THEN st ELSE u] :
        ks \in SUBSET {<<"s", "t", "a", "t", "u", "s">>, <<"u", "r", "l">>}, st \in StatusValues, u \in UrlValues}
PaperValues == {List(q) : q \in SeqsUpTo(PaperItems, MaxPaperItems)} \cup {Str(<<"x">>)}
VideoEntries ==
    {EmptyDict,
     Put(EmptyDict, <<"v", "i", "d", "e", "o">>, Str(<<"v">>)),
     Put(EmptyDict, <<"v", "i", "d", "e", "o">>, List(<<Put(EmptyDict, <<"u", "r", "l">>, <<"v">>)>>)),
     Put(EmptyDict, <<"v", "i", "d", "e", "o", "s">>, List(<<Put(EmptyDict, <<"u", "r", "l">>, <<"v">>)>>))}
Entries ==
    {Put(v, <<"t", "i", "t", "l", "e">>, Str(<<"T">>)) : v \in VideoEntries}
    \cup {Put(Put(v, <<"t", "i", "t", "l", "e">>, Str(<<"T">>)), <<"p", "a", "p", "e", "r">>, p) : v \in VideoEntries, p \in PaperValues}

CardIdle == data = <<>> /\ card = <<>>

InitCard ==
    /\ data \in Entries
    /\ card = <<>>

RenderCard ==
    /\ card = <<>>
    /\ card' = <<render_card(data)>>
    /\ UNCHANGED <<notCard, data>>

(***************************************************************************)
(* Properties of render_card.                                              *)
(***************************************************************************)
HasFragment(c, template) == \E i \in 1..Len(c.links) : c.links[i].template = template

\* the status and the URL of the paper sub-entries: those of the first
\* sub-entry that has one, "" when there is none
ClaimField(d, key) ==
    IF <<"p", "a", "p", "e", "r">> \notin DOMAIN d \/ d[<<"p", "a", "p", "e", "r">>].kind # "list" THEN <<>>
    ELSE LET items == d[<<"p", "a", "p", "e", "r">>].items
             has == {i \in 1..Len(items) : key \in DOMAIN items[i]}
         IN  IF has = {} THEN <<>>
             ELSE items[CHOOSE i \in has : \A j \in has : i <= j][key]

\* C2: a card has a paper button and no status badge when the status is
\* "accepted" in any letter case and a paper URL is present; with any other
\* non-empty status it has a status badge and no paper button; it never has
\* both.
C2_ButtonOrBadge ==
    card # <<>> =>
        LET status == ClaimField(data, <<"s", "t", "a", "t", "u", "s">>)
            url == ClaimField(data, <<"u", "r", "l">>)
            accepted == Lower(status) = <<"a", "c", "c", "e", "p", "t", "e", "d">> /\ url # <<>>
            button == HasFragment(card[1], "PAPER_BUTTON_TEMPLATE")
            badge == HasFragment(card[1], "STATUS_BADGE_TEMPLATE")
        IN  /\ accepted => button /\ ~badge
            /\ (~accepted /\ status # <<>>) => badge /\ ~button
            /\ ~(button /\ badge)

\* C2 happens: a card was rendered with a paper button for a status that is
\* "accepted" only up to letter case
C2_Witness ==
    /\ card # <<>>
    /\ HasFragment(card[1], "PAPER_BUTTON_TEMPLATE")
    /\ ClaimField(data, <<"s", "t", "a", "t", "u", "s">>) = <<"A", "C", "C", "E", "P", "T", "E", "D">>

(***************************************************************************)
(* generate_portfolio.py: parse_simple_yaml and its helpers.  idx counts   *)
(* lines from 0 as in the source.                                          *)
(***************************************************************************)
LineAt(ls, i) == ls[i + 1]
Colon == ":"
Blank(s) == Strip(s) = <<>>
\* not stripped or stripped.startswith("#")
BlankOrComment(s) == Blank(s) \/ StartsWith(Strip(s), <<"#">>)
\* s.endswith('"') and not s.endswith('\\"')
ClosesQuote(s) == EndsWith(s, <<"\"">>) /\ ~EndsWith(s, <<"\\", "\"">>)

\* "\n".join(pieces)
RECURSIVE Join(_)
Join(pieces) ==
    IF pieces = <<>> THEN <<>>
    ELSE IF Len(pieces) = 1 THEN pieces[1]
    ELSE pieces[1] \o <<"\n">> \o Join(Tail(pieces))

\* str.splitlines() for "\n": no empty last line after a final line break
RECURSIVE SplitLines(_)
SplitLines(text) ==
    IF text = <<>> THEN <<>>
    ELSE LET i == IndexOf(text, "\n")
         IN  IF i = 0 THEN <<text>>
             ELSE <<SubSeq(text, 1, i - 1)>> \o SplitLines(SubSeq(text, i + 1, Len(text)))

\* _clean_scalar
_clean_scalar(value) ==
    LET v == Strip(value)
    IN  IF StartsWith(v, <<"\"">>) /\ EndsWith(v, <<"\"">>) /\ Len(v) >= 2
        THEN Strip(SubSeq(v, 2, Len(v) - 1))
        ELSE Strip(v)

\* the leading blanks and tabs of a line
LeadingWs(s) ==
    LET keep == {i \in 1..Len(s) : s[i] \notin {" ", "\t"}}
    IN  IF keep = {} THEN s
        ELSE SubSeq(s, 1, (CHOOSE i \in keep : \A j \in keep : i <= j) - 1)

\* textwrap.dedent on lines: lines of white space alone become empty, and
\* the longest white space all other lines start with is cut from them
Dedent(ls) ==
    LET norm == [i \in 1..Len(ls) |-> IF Blank(ls[i]) THEN <<>> ELSE ls[i]]
        full == {i \in 1..Len(ls) : norm[i] # <<>>}
        Common(n) == \A i, j \in full :
                        /\ Len(LeadingWs(norm[i])) >= n
                        /\ SubSeq(norm[i], 1, n) = SubSeq(LeadingWs(norm[j]), 1, n)
        lens == {n \in 0..(IF full = {} THEN 0
                           ELSE Len(norm[CHOOSE i \in full : TRUE])) : Common(n)}
        margin == CHOOSE n \in lens : \A m \in lens : n >= m
    IN  [i \in 1..Len(ls) |->
            IF norm[i] = <<>> THEN <<>> ELSE SubSeq(norm[i], margin + 1, Len(norm[i]))]

\* the lines of text without the blank ones at either end
RECURSIVE TrimBlankLines(_)
TrimBlankLines(ls) ==
    IF ls = <<>> THEN <<>>
    ELSE IF Blank(ls[1]) THEN TrimBlankLines(Tail(ls))
    ELSE IF Blank(ls[Len(ls)]) THEN TrimBlankLines(SubSeq(ls, 1, Len(ls) - 1))
    ELSE ls

\* _normalize_multiline
_normalize_multiline(text) ==
    LET kept == TrimBlankLines(SplitLines(text))
    IN  IF kept = <<>> THEN <<>>
        ELSE Strip(Join(Dedent(SplitLines(Join(kept)))))

\* the loop of _parse_quoted_block, lines 86-101: [pieces, idx]
RECURSIVE QuotedLoop(_, _, _)
QuotedLoop(ls, i, pieces) ==
    IF i >= Len(ls) THEN [pieces |-> pieces, idx |-> i]
    ELSE LET segment == LineAt(ls, i)
             stripped == Strip(segment)
         IN  IF stripped = <<>> THEN QuotedLoop(ls, i + 1, Append(pieces, <<>>))
             ELSE IF StartsWith(stripped, <<"#">>) THEN QuotedLoop(ls, i + 1, pieces)
             ELSE IF ClosesQuote(stripped)
             THEN [pieces |-> Append(pieces, SubSeq(RStrip(segment), 1,
                                                    Len(RStrip(segment)) - 1)),
                   idx |-> i + 1]
             ELSE QuotedLoop(ls, i + 1, Append(pieces, RStrip(segment)))

\* _parse_quoted_block if line 79 gave idx back as it came
QuotedBlockStuck(ls, i, current) ==
    LET text == SubSeq(current, 2, Len(current))
    IN  IF ClosesQuote(text)
        THEN [text |-> SubSeq(text, 1, Len(text) - 1), idx |-> i]
        ELSE LET r == QuotedLoop(ls, i + 1, IF text # <<>> THEN <<text>> ELSE <<>>)
             IN  [text |-> Join(r.pieces), idx |-> r.idx]
\* _parse_quoted_block: [text, idx]
_parse_quoted_block(ls, i, current) ==
    LET text == SubSeq(current, 2, Len(current))
    IN  IF ClosesQuote(text)
        THEN [text |-> SubSeq(text, 1, Len(text) - 1), idx |-> i + 1]
        ELSE LET r == QuotedLoop(ls, i + 1, IF text # <<>> THEN <<text>> ELSE <<>>)
             IN  [text |-> Join(r.pieces), idx |-> r.idx]

\* sub_key, sub_value = s.split(":", 1); entry[sub_key.strip()] = _clean_scalar(sub_value)
PutPair(entry, s) ==
    Put(entry, Strip(SplitOnce(s, Colon)[1]), _clean_scalar(SplitOnce(s, Colon)[2]))

\* the inner loop of _parse_list_block, lines 123-134: [entry, idx]
RECURSIVE DetailLoop(_, _, _)
DetailLoop(ls, i, entry) ==
    IF i >= Len(ls) THEN [entry |-> entry, idx |-> i]
    ELSE LET detail == LineAt(ls, i)
             stripped_detail == Strip(detail)
         IN  IF BlankOrComment(detail) THEN DetailLoop(ls, i + 1, entry)
             ELSE IF ~StartsWith(detail, <<" ", " ", " ", " ">>) THEN [entry |-> entry, idx |-> i]
             ELSE IF Colon \in Range(stripped_detail)
             THEN DetailLoop(ls, i + 1, PutPair(entry, stripped_detail))
             ELSE DetailLoop(ls, i + 1, entry)

\* _parse_list_block: [items, idx]
RECURSIVE _parse_list_block(_, _, _)
_parse_list_block(ls, i, items) ==
    IF i >= Len(ls) THEN [items |-> items, idx |-> i]
    ELSE LET line == LineAt(ls, i)
             stripped == Strip(line)
         IN  IF BlankOrComment(line) THEN _parse_list_block(ls, i + 1, items)
             ELSE IF ~StartsWith(line, <<" ", " ">>) THEN [items |-> items, idx |-> i]
             ELSE IF StartsWith(stripped, <<"-">>)
             THEN LET inline == Strip(SubSeq(stripped, 2, Len(stripped)))
                      entry == IF inline # <<>> /\ Colon \in Range(inline)
                               THEN PutPair(EmptyDict, inline) ELSE EmptyDict
                      r == DetailLoop(ls, i + 1, entry)
                  IN  _parse_list_block(ls, r.idx, Append(items, r.entry))
             ELSE _parse_list_block(ls, i + 1, items)

(***************************************************************************)
(* The descriptors parse_simple_yaml is given, and its main loop, one      *)
(* action for each way an iteration can go.                                *)
(***************************************************************************)
DescriptorLines ==
    {<<"t", ":", " ", "\"", "D", "\"">>, <<"i", ":">>, <<" ", " ", "-", " ", "s", ":", " ", "a">>, <<" ", " ", " ", " ", "c", ":", " ", "\"", "F", "\"">>, <<" ", " ", " ", " ", "-", " ", "s", ":", " ", "b">>, <<>>,
     <<"#", " ", "c">>, <<"d", ":", " ", "\"", "x">>, <<"y", "\"">>, <<" ", " ", "k", ":", " ", "v">>}
ExampleDescriptor ==
    <<<<"t", "i", "t", "l", "e", ":", " ", "\"", "D", "e", "m", "o", "\"">>, <<"i", "m", "a", "g", "e", "s", ":">>, <<" ", " ", "-", " ", "s", "r", "c", ":", " ", "a", ".", "p", "n", "g">>, <<" ", " ", " ", " ", "c", "a", "p", "t", "i", "o", "n", ":", " ", "\"", "F", "i", "g", " ", "1", "\"">>>>

YamlIdle ==
    /\ lines = <<>> /\ idx = 0 /\ ydata = <<>> /\ ypc = "idle"
    /\ lastIter = <<>> /\ lastCall = <<>>

NoCall == [fn |-> "none", start |-> 0, ret |-> 0, items |-> <<>>]

InitYaml ==
    /\ lines \in SeqsUpTo(DescriptorLines, MaxLines) \cup {ExampleDescriptor}
    /\ idx = 0
    /\ ydata = EmptyDict
    /\ ypc = "loop"
    /\ lastIter = <<>>
    /\ lastCall = NoCall

\* key, value of lines 48-50
KeyOf(line) == Strip(SplitOnce(line, Colon)[1])
ValueOf(line) == LStrip(SplitOnce(line, Colon)[2])
AtLine == ypc = "loop" /\ idx < Len(lines)

\* lines 41-43
YamlSkipBlankOrComment ==
    /\ AtLine /\ BlankOrComment(LineAt(lines, idx))
    /\ idx' = idx + 1
    /\ lastIter' = <<idx, idx + 1>>
    /\ lastCall' = NoCall
    /\ UNCHANGED <<notYaml, lines, ydata, ypc>>

\* lines 44-46
YamlSkipNoColon ==
    /\ AtLine /\ ~BlankOrComment(LineAt(lines, idx))
    /\ Colon \notin Range(LineAt(lines, idx))
    /\ idx' = idx + 1
    /\ lastIter' = <<idx, idx + 1>>
    /\ lastCall' = NoCall
    /\ UNCHANGED <<notYaml, lines, ydata, ypc>>

\* lines 52-55
YamlQuotedBlock ==
    /\ AtLine /\ ~BlankOrComment(LineAt(lines, idx))
    /\ Colon \in Range(LineAt(lines, idx))
    /\ StartsWith(ValueOf(LineAt(lines, idx)), <<"\"">>)
    /\ LET r == _parse_quoted_block(lines, idx, ValueOf(LineAt(lines, idx)))
       IN  /\ ydata' = Put(ydata, KeyOf(LineAt(lines, idx)), Str(_normalize_multiline(r.text)))
           /\ idx' = r.idx
           /\ lastIter' = <<idx, r.idx>>
           /\ lastCall' = [fn |-> "quoted", start |-> idx, ret |-> r.idx, items |-> <<>>]
    /\ UNCHANGED <<notYaml, lines, ypc>>

\* lines 57-61
YamlListBlock ==
    /\ AtLine /\ ~BlankOrComment(LineAt(lines, idx))
    /\ Colon \in Range(LineAt(lines, idx))
    /\ ValueOf(LineAt(lines, idx)) = <<>>
    /\ LET r == _parse_list_block(lines, idx + 1, <<>>)
       IN  /\ ydata' = Put(ydata, KeyOf(LineAt(lines, idx)), List(r.items))
           /\ idx' = r.idx
           /\ lastIter' = <<idx, r.idx>>
           /\ lastCall' = [fn |-> "list", start |-> idx + 1, ret |-> r.idx,
                           items |-> r.items]
    /\ UNCHANGED <<notYaml, lines, ypc>>

\* lines 63-64
YamlScalar ==
    /\ AtLine /\ ~BlankOrComment(LineAt(lines, idx))
    /\ Colon \in Range(LineAt(lines, idx))
    /\ ValueOf(LineAt(lines, idx)) # <<>>
    /\ ~StartsWith(ValueOf(LineAt(lines, idx)), <<"\"">>)
    /\ ydata' = Put(ydata, KeyOf(LineAt(lines, idx)), Str(_clean_scalar(ValueOf(LineAt(lines, idx)))))
    /\ idx' = idx + 1
    /\ lastIter' = <<idx, idx + 1>>
    /\ lastCall' = NoCall
    /\ UNCHANGED <<notYaml, lines, ypc>>

\* lines 38 and 66: the loop ends and data is returned
YamlReturn ==
    /\ ypc = "loop" /\ idx >= Len(lines)
    /\ ypc' = "done"
    /\ UNCHANGED <<notYaml, lines, idx, ydata, lastIter, lastCall>>

(***************************************************************************)
(* Properties of parse_simple_yaml.                                        *)
(***************************************************************************)
\* a line of a list block that starts with "-"
ClaimDashLine(l) == ~BlankOrComment(l) /\ StartsWith(l, <<" ", " ">>) /\ StartsWith(Strip(l), <<"-">>)

\* the index of the first line from i on that is neither blank nor a comment
\* and is not indented by two spaces; the number of lines when there is none
RECURSIVE ClaimBlockEnd(_, _)
ClaimBlockEnd(ls, i) ==
    IF i >= Len(ls) THEN Len(ls)
    ELSE IF ~BlankOrComment(LineAt(ls, i)) /\ ~StartsWith(LineAt(ls, i), <<" ", " ">>) THEN i
    ELSE ClaimBlockEnd(ls, i + 1)

\* entry with the pairs of the four-space-indented lines that follow, from
\* line i up to the next "-" line or the end of the block
RECURSIVE ClaimDetails(_, _, _, _)
ClaimDetails(ls, i, end, entry) ==
    IF i >= end THEN entry
    ELSE LET l == LineAt(ls, i)
         IN  IF BlankOrComment(l) THEN ClaimDetails(ls, i + 1, end, entry)
             ELSE IF StartsWith(l, <<" ", " ", " ", " ">>) /\ ~ClaimDashLine(l)
             THEN ClaimDetails(ls, i + 1, end,
                               IF Colon \in Range(Strip(l)) THEN PutPair(entry, Strip(l))
                               ELSE entry)
             ELSE entry

\* one mapping for each "-" line from line i up to the end of the block
RECURSIVE ClaimItems(_, _, _)
ClaimItems(ls, i, end) ==
    IF i >= end THEN <<>>
    ELSE IF ClaimDashLine(LineAt(ls, i))
    THEN LET inline == Strip(Tail(Strip(LineAt(ls, i))))
             entry == IF Colon \in Range(inline) THEN PutPair(EmptyDict, inline)
                      ELSE EmptyDict
         IN  <<ClaimDetails(ls, i + 1, end, entry)>> \o ClaimItems(ls, i + 1, end)
    ELSE ClaimItems(ls, i + 1, end)

\* C8: a "key:" line with no value is given the list of one mapping for each
\* following line indented by two spaces or more that starts with "-", each
\* with its inline pair and the pairs of the four-space-indented lines after
\* it; the block ends at the first line that is neither blank nor a comment
\* and is not indented by two spaces, where the main loop goes on; the
\* example parses to title = Demo and images = [{src: a.png, caption: Fig 1}].
C8_ListBlockOneMappingPerDash ==
    /\ lastCall.fn = "list" =>
        /\ lastCall.ret = ClaimBlockEnd(lines, lastCall.start)
        /\ lastCall.items = ClaimItems(lines, lastCall.start, lastCall.ret)
        /\ idx = lastCall.ret
        /\ ydata[KeyOf(LineAt(lines, lastCall.start - 1))] = List(lastCall.items)
    /\ (lines = ExampleDescriptor /\ ypc = "done") =>
        ydata = Put(Put(EmptyDict, <<"t", "i", "t", "l", "e">>, Str(<<"D", "e", "m", "o">>)), <<"i", "m", "a", "g", "e", "s">>,
                    List(<<Put(Put(EmptyDict, <<"s", "r", "c">>, <<"a", ".", "p", "n", "g">>), <<"c", "a", "p", "t", "i", "o", "n">>, <<"F", "i", "g", " ", "1">>)>>))

\* C10 as stated: every iteration of the main loop and every call of
\* _parse_quoted_block and _parse_list_block ends at an index greater than
\* the one it started from and not greater than the number of lines.
C10_EveryStepAdvances ==
    /\ lastIter # <<>> => lastIter[1] < lastIter[2] /\ lastIter[2] <= Len(lines)
    /\ lastCall.fn # "none" =>
          lastCall.start < lastCall.ret /\ lastCall.ret <= Len(lines)

\* C10 amended: every iteration of the main loop and every call of
\* _parse_quoted_block ends at an index greater than the one it started
\* from; a call of _parse_list_block ends at an index not smaller than the
\* one it was given (the same one when no line of a block follows); no index
\* is greater than the number of lines, and the loop is left only at the end
\* of the lines.
C10_LoopAdvancesListCallMayStay ==
    /\ idx <= Len(lines)
    /\ lastIter # <<>> => lastIter[1] < lastIter[2] /\ lastIter[2] <= Len(lines)
    /\ lastCall.fn = "quoted" =>
          lastCall.start < lastCall.ret /\ lastCall.ret <= Len(lines)
    /\ lastCall.fn = "list" =>
          lastCall.start <= lastCall.ret /\ lastCall.ret <= Len(lines)
    /\ ypc = "done" => idx = Len(lines)

\* C10 happens: the parser has returned after an unterminated quoted block
\* ran to the end of the lines, or after a list block with no line in it
C10_Witness ==
    /\ ypc = "done"
    /\ \/ lastCall.fn = "list" /\ lastCall.ret = lastCall.start
       \/ /\ lastCall.fn = "quoted" /\ lastCall.ret = Len(lines)
          /\ lastCall.ret > lastCall.start + 1

(***************************************************************************)
(* Specifications, one for each tool; the other tools are idle.            *)
(***************************************************************************)
NextMain ==
    \/ MainMissingHtml \/ MainStart \/ IterSeen \/ IterRemote \/ IterMissing
    \/ IterUnsupported \/ IterYield \/ MainDone
InitOnlyMain == InitMain /\ PadIdle /\ GeomIdle /\ CardIdle /\ YamlIdle
SpecMain == InitOnlyMain /\ [][NextMain]_vars

NextPad == RunPad
InitOnlyPad == InitPad /\ MainIdle /\ GeomIdle /\ CardIdle /\ YamlIdle
SpecPad == InitOnlyPad /\ [][NextPad]_vars

NextGeom == PadGeom
InitOnlyGeom == InitGeom /\ MainIdle /\ PadIdle /\ CardIdle /\ YamlIdle
SpecGeom == InitOnlyGeom /\ [][NextGeom]_vars

NextCard == RenderCard
InitOnlyCard == InitCard /\ MainIdle /\ PadIdle /\ GeomIdle /\ YamlIdle
SpecCard == InitOnlyCard /\ [][NextCard]_vars

NextYaml ==
    \/ YamlSkipBlankOrComment \/ YamlSkipNoColon \/ YamlQuotedBlock \/ YamlListBlock
    \/ YamlScalar \/ YamlReturn
InitOnlyYaml == InitYaml /\ MainIdle /\ PadIdle /\ GeomIdle /\ CardIdle
SpecYaml == InitOnlyYaml /\ [][NextYaml]_vars
====
